---------------------------- MODULE Spec2Model ----------------------------
(***************************************************************************)
(* Model of examples/counter/tb/sv/counter_tb.cpp: the stimulus driver     *)
(* that holds a counter in reset for the first cycles, then clocks it with *)
(* enable set, optionally sampling a waveform, and reports count once per  *)
(* cycle.                                                                  *)
(*                                                                         *)
(* main is modelled statement by statement with a program counter pc.      *)
(* The counter (Vcounter) and the Verilated runtime are collaborators      *)
(* whose code is not part of the driver; they are modelled from the        *)
(* specification (section 8 scenario and section 3 data model).            *)
(***************************************************************************)
EXTENDS Integers, Sequences, FiniteSets

(***************************************************************************)
(* Program constants.                                                      *)
(***************************************************************************)
\* for (int cycle = 0; cycle < 100; cycle++)
NumCycles == 100

\* if (cycle < 5)
ResetCycles == 5

(***************************************************************************)
(* Bounds of the model: the parameters of the counter under test, which    *)
(* the driver does not fix.                                                *)
(***************************************************************************)
\* a narrow counter, so that count wraps around within the run
SmallWidth == 3

\* a counter wide enough to hold every count of the run
BigWidth == 7

\* the counter's reset value ranges over 0..MaxResetVal
MaxResetVal == 1

\* the counter's power-on value ranges over 0..MaxInitCount
MaxInitCount == 1

Widths == {SmallWidth, BigWidth}

Bit == {0, 1}

RECURSIVE Pow2(_)
Pow2(n) == IF n = 0 THEN 1 ELSE 2 * Pow2(n - 1)

VARIABLES
    runNo,        \* which execution of the program this is
    pc,           \* position in main
    cycle,        \* int cycle
    top,          \* Vcounter* top: "null", "live", "freed"
    tfp,          \* VerilatedVcdC* tfp: "null", "open", "closed", "freed"
    rst_n,        \* top->rst_n
    enable,       \* top->enable
    clk,          \* top->clk
    count,        \* top->count
    lastClk,      \* the clk value the counter saw at its previous evaluation
    gotFinish,    \* Verilated::gotFinish()
    startFlag,    \* gotFinish as it was when the process started
    finishReads,  \* how many times main has called Verilated::gotFinish()
    nEvals,       \* how many times main has called top->eval()
    out,          \* lines printed: <<cycle, count>>
    dumps,        \* samples recorded: <<timestamp, cycle, clk, count>>
    stim,         \* signal writes and evaluations, in program order
    misuse,       \* a released or absent resource has been used
    ret,          \* exit status, -1 while running
    prevOut,      \* out of the previous execution
    prevDumps,    \* dumps of the previous execution
    prevStim,     \* stim of the previous execution
    prevStart,    \* startFlag of the previous execution
    WIDTH,        \* the counter's width in bits
    RESET_VAL,    \* the counter's reset value
    INIT_COUNT,   \* the counter's value at construction
    levelReset    \* the counter's reset is level sensitive (else clocked)

dutVars == <<WIDTH, RESET_VAL, INIT_COUNT, levelReset>>

prevVars == <<prevOut, prevDumps, prevStim, prevStart>>

sigVars == <<rst_n, enable, clk, count, lastClk>>

histVars == <<out, dumps, stim>>

vars == <<runNo, pc, cycle, top, tfp, rst_n, enable, clk, count, lastClk,
          gotFinish, startFlag, finishReads, nEvals, out, dumps, stim,
          misuse, ret, prevOut, prevDumps, prevStim, prevStart,
          WIDTH, RESET_VAL, INIT_COUNT, levelReset>>

(***************************************************************************)
(* Entries of stim.  A write is <<signal, value>>, an evaluation is        *)
(* <<"eval", input vector>>.                                               *)
(***************************************************************************)
WriteEv(sig, v) == <<sig, v>>

EvalEv(r, e, k) == <<"eval", 4 * r + 2 * e + k>>

(***************************************************************************)
(* The counter: on a rising clock edge it loads its reset value while      *)
(* rst_n is 0 and otherwise, when enable is 1, increments modulo 2^WIDTH.  *)
(* A level-sensitive reset also loads the reset value at any evaluation    *)
(* with rst_n = 0.                                                         *)
(***************************************************************************)
CounterEval(c, last, r, e, k, w, rv, level) ==
    LET posedge == (k = 1 /\ last = 0)
    IN  IF r = 0 /\ (level \/ posedge) THEN rv
        ELSE IF posedge /\ r = 1 /\ e = 1 THEN (c + 1) % Pow2(w)
        ELSE c

(***************************************************************************)
(* Pure parts of main.                                                     *)
(***************************************************************************)
\* variant: the reset window is one cycle too long
InResetWindowLate(c) == c <= ResetCycles

\* if (cycle < 5)
InResetWindow(c) == c < ResetCycles

\* variant: the loop bound is off by one
LoopCondOffByOne(c) == c <= NumCycles

\* cycle < 100
LoopCond(c) == c < NumCycles

\* tfp->dump(cycle*2)
FallStamp(c) == c * 2

\* variant: the rising-edge sample reuses the falling-edge timestamp
RiseStampReuse(c) == c * 2

\* tfp->dump(cycle*2+1)
RiseStamp(c) == c * 2 + 1

\* if (tfp)
TfpSet == tfp # "null"

TopUse == top # "live"

TfpUse == tfp # "open"

(***************************************************************************)
(* Initial state: the process has started, main has not run yet.           *)
(***************************************************************************)
Init ==
    /\ runNo = 1
    /\ pc = "new_top"
    /\ cycle = 0
    /\ top = "null"
    /\ tfp = "null"
    /\ rst_n = 0 /\ enable = 0 /\ clk = 0 /\ count = 0 /\ lastClk = 0
    /\ gotFinish \in BOOLEAN
    /\ startFlag = gotFinish
    /\ finishReads = 0
    /\ nEvals = 0
    /\ out = <<>> /\ dumps = <<>> /\ stim = <<>>
    /\ misuse = FALSE
    /\ ret = -1
    /\ prevOut = <<>> /\ prevDumps = <<>> /\ prevStim = <<>>
    /\ prevStart = FALSE
    /\ WIDTH \in Widths
    /\ RESET_VAL \in 0..MaxResetVal
    /\ INIT_COUNT \in 0..MaxInitCount
    /\ levelReset \in BOOLEAN

(***************************************************************************)
(* Vcounter* top = new Vcounter;                                           *)
(* The constructor leaves the inputs at values the runtime chooses.        *)
(***************************************************************************)
NewTop ==
    /\ pc = "new_top"
    /\ top' = "live"
    /\ rst_n' \in Bit /\ enable' \in Bit /\ clk' \in Bit /\ lastClk' \in Bit
    /\ count' = INIT_COUNT % Pow2(WIDTH)
    /\ pc' = "check"
    /\ UNCHANGED <<runNo, cycle, tfp, gotFinish, startFlag, finishReads,
                   nEvals, histVars, misuse, ret, prevVars, dutVars>>

\* variant: the startup test is inverted
CheckFinishInverted ==
    /\ pc = "check"
    /\ finishReads' = finishReads + 1
    /\ pc' = IF gotFinish = TRUE THEN "open" ELSE "init_rst"
    /\ UNCHANGED <<runNo, cycle, top, tfp, sigVars, gotFinish, startFlag,
                   nEvals, histVars, misuse, ret, prevVars, dutVars>>

(***************************************************************************)
(* VerilatedVcdC* tfp = nullptr; if (Verilated::gotFinish() == false)      *)
(***************************************************************************)
CheckFinish ==
    /\ pc = "check"
    /\ finishReads' = finishReads + 1
    /\ pc' = IF gotFinish = FALSE THEN "open" ELSE "init_rst"
    /\ UNCHANGED <<runNo, cycle, top, tfp, sigVars, gotFinish, startFlag,
                   nEvals, histVars, misuse, ret, prevVars, dutVars>>

(***************************************************************************)
(* traceEverOn(true); tfp = new VerilatedVcdC; top->trace(tfp, 99);        *)
(* tfp->open("counter.vcd");                                               *)
(***************************************************************************)
OpenTrace ==
    /\ pc = "open"
    /\ tfp' = "open"
    /\ misuse' = (misuse \/ TopUse)
    /\ pc' = "init_rst"
    /\ UNCHANGED <<runNo, cycle, top, sigVars, gotFinish, startFlag,
                   finishReads, nEvals, histVars, ret, prevVars, dutVars>>

(***************************************************************************)
(* top->rst_n = 0; top->enable = 0; top->clk = 0;                          *)
(***************************************************************************)
InitRst ==
    /\ pc = "init_rst"
    /\ rst_n' = 0
    /\ stim' = Append(stim, WriteEv("rst_n", 0))
    /\ misuse' = (misuse \/ TopUse)
    /\ pc' = "init_enable"
    /\ UNCHANGED <<runNo, cycle, top, tfp, enable, clk, count, lastClk,
                   gotFinish, startFlag, finishReads, nEvals, out, dumps,
                   ret, prevVars, dutVars>>

InitEnable ==
    /\ pc = "init_enable"
    /\ enable' = 0
    /\ stim' = Append(stim, WriteEv("enable", 0))
    /\ misuse' = (misuse \/ TopUse)
    /\ pc' = "init_clk"
    /\ UNCHANGED <<runNo, cycle, top, tfp, rst_n, clk, count, lastClk,
                   gotFinish, startFlag, finishReads, nEvals, out, dumps,
                   ret, prevVars, dutVars>>

InitClk ==
    /\ pc = "init_clk"
    /\ clk' = 0
    /\ stim' = Append(stim, WriteEv("clk", 0))
    /\ misuse' = (misuse \/ TopUse)
    /\ cycle' = 0
    /\ pc' = "loop"
    /\ UNCHANGED <<runNo, top, tfp, rst_n, enable, count, lastClk,
                   gotFinish, startFlag, finishReads, nEvals, out, dumps,
                   ret, prevVars, dutVars>>

\* variant: the loop also stops when the backend has flagged finish
LoopTestFinish ==
    /\ pc = "loop"
    /\ pc' = IF LoopCond(cycle) /\ ~gotFinish
             THEN (IF InResetWindow(cycle) THEN "hold_reset" ELSE "release_reset")
             ELSE "teardown"
    /\ UNCHANGED <<runNo, cycle, top, tfp, sigVars, gotFinish, startFlag,
                   finishReads, nEvals, histVars, misuse, ret, prevVars,
                   dutVars>>

(***************************************************************************)
(* for (...; cycle < 100; ...) and the test if (cycle < 5)                 *)
(***************************************************************************)
LoopTest ==
    /\ pc = "loop"
    /\ pc' = IF LoopCond(cycle)
             THEN (IF InResetWindow(cycle) THEN "hold_reset" ELSE "release_reset")
             ELSE "teardown"
    /\ UNCHANGED <<runNo, cycle, top, tfp, sigVars, gotFinish, startFlag,
                   finishReads, nEvals, histVars, misuse, ret, prevVars,
                   dutVars>>

\* variant: the reset polarity is inverted
HoldResetReleased ==
    /\ pc = "hold_reset"
    /\ rst_n' = 1
    /\ stim' = Append(stim, WriteEv("rst_n", 1))
    /\ misuse' = (misuse \/ TopUse)
    /\ pc' = "clk_low"
    /\ UNCHANGED <<runNo, cycle, top, tfp, enable, clk, count, lastClk,
                   gotFinish, startFlag, finishReads, nEvals, out, dumps,
                   ret, prevVars, dutVars>>

\* top->rst_n = 0;
HoldReset ==
    /\ pc = "hold_reset"
    /\ rst_n' = 0
    /\ stim' = Append(stim, WriteEv("rst_n", 0))
    /\ misuse' = (misuse \/ TopUse)
    /\ pc' = "clk_low"
    /\ UNCHANGED <<runNo, cycle, top, tfp, enable, clk, count, lastClk,
                   gotFinish, startFlag, finishReads, nEvals, out, dumps,
                   ret, prevVars, dutVars>>

\* variant: enable is set before reset is released
ReleaseResetEnableFirst ==
    /\ pc = "release_reset"
    /\ enable' = 1
    /\ stim' = Append(stim, WriteEv("enable", 1))
    /\ misuse' = (misuse \/ TopUse)
    /\ pc' = "set_enable"
    /\ UNCHANGED <<runNo, cycle, top, tfp, rst_n, clk, count, lastClk,
                   gotFinish, startFlag, finishReads, nEvals, out, dumps,
                   ret, prevVars, dutVars>>

\* top->rst_n = 1;
ReleaseReset ==
    /\ pc = "release_reset"
    /\ rst_n' = 1
    /\ stim' = Append(stim, WriteEv("rst_n", 1))
    /\ misuse' = (misuse \/ TopUse)
    /\ pc' = "set_enable"
    /\ UNCHANGED <<runNo, cycle, top, tfp, enable, clk, count, lastClk,
                   gotFinish, startFlag, finishReads, nEvals, out, dumps,
                   ret, prevVars, dutVars>>

\* variant: enable is never set
SetEnableDropped ==
    /\ pc = "set_enable"
    /\ pc' = "clk_low"
    /\ UNCHANGED <<runNo, cycle, top, tfp, sigVars, gotFinish, startFlag,
                   finishReads, nEvals, histVars, misuse, ret, prevVars,
                   dutVars>>

\* top->enable = 1;
SetEnable ==
    /\ pc = "set_enable"
    /\ enable' = 1
    /\ stim' = Append(stim, WriteEv("enable", 1))
    /\ misuse' = (misuse \/ TopUse)
    /\ pc' = "clk_low"
    /\ UNCHANGED <<runNo, cycle, top, tfp, rst_n, clk, count, lastClk,
                   gotFinish, startFlag, finishReads, nEvals, out, dumps,
                   ret, prevVars, dutVars>>

(***************************************************************************)
(* top->eval(): the counter settles under the current inputs; the backend  *)
(* may raise its finished flag while doing so.                             *)
(***************************************************************************)
Eval(next) ==
    /\ count' = CounterEval(count, lastClk, rst_n, enable, clk,
                            WIDTH, RESET_VAL, levelReset)
    /\ lastClk' = clk
    /\ \E raise \in BOOLEAN : gotFinish' = (gotFinish \/ raise)
    /\ nEvals' = nEvals + 1
    /\ stim' = Append(stim, EvalEv(rst_n, enable, clk))
    /\ misuse' = (misuse \/ TopUse)
    /\ pc' = next
    /\ UNCHANGED <<runNo, cycle, top, tfp, rst_n, enable, clk, startFlag,
                   finishReads, out, dumps, ret, prevVars, dutVars>>

\* if (tfp) tfp->dump(stamp);
Dump(stamp, next) ==
    /\ dumps' = IF TfpSet
                THEN Append(dumps, <<stamp, cycle, clk, count>>)
                ELSE dumps
    /\ misuse' = (misuse \/ (TfpSet /\ (TfpUse \/ TopUse)))
    /\ pc' = next
    /\ UNCHANGED <<runNo, cycle, top, tfp, sigVars, gotFinish, startFlag,
                   finishReads, nEvals, out, stim, ret, prevVars, dutVars>>

\* top->clk = v;
SetClk(v, next) ==
    /\ clk' = v
    /\ stim' = Append(stim, WriteEv("clk", v))
    /\ misuse' = (misuse \/ TopUse)
    /\ pc' = next
    /\ UNCHANGED <<runNo, cycle, top, tfp, rst_n, enable, count, lastClk,
                   gotFinish, startFlag, finishReads, nEvals, out, dumps,
                   ret, prevVars, dutVars>>

\* variant: the clock is never lowered
ClkLowStuck == pc = "clk_low" /\ SetClk(1, "eval_low")

\* top->clk = 0;
ClkLow == pc = "clk_low" /\ SetClk(0, "eval_low")

\* variant: the falling-edge evaluation is left out
EvalLowSkipped ==
    /\ pc = "eval_low"
    /\ pc' = "dump_low"
    /\ UNCHANGED <<runNo, cycle, top, tfp, sigVars, gotFinish, startFlag,
                   finishReads, nEvals, histVars, misuse, ret, prevVars,
                   dutVars>>

\* top->eval();
EvalLow == pc = "eval_low" /\ Eval("dump_low")

\* variant: sampling stops once the backend has flagged finish
DumpLowUnlessFinished ==
    /\ pc = "dump_low"
    /\ IF gotFinish
       THEN /\ pc' = "clk_high"
            /\ UNCHANGED <<runNo, cycle, top, tfp, sigVars, gotFinish,
                           startFlag, finishReads, nEvals, histVars, misuse,
                           ret, prevVars, dutVars>>
       ELSE Dump(FallStamp(cycle), "clk_high")

\* if (tfp) tfp->dump(cycle*2);
DumpLow == pc = "dump_low" /\ Dump(FallStamp(cycle), "clk_high")

\* variant: the clock is never raised
ClkHighLow == pc = "clk_high" /\ SetClk(0, "eval_high")

\* top->clk = 1;
ClkHigh == pc = "clk_high" /\ SetClk(1, "eval_high")

\* variant: the rising edge is evaluated only when tracing
EvalHighTraced ==
    /\ pc = "eval_high"
    /\ IF TfpSet
       THEN Eval("dump_high")
       ELSE /\ pc' = "dump_high"
            /\ UNCHANGED <<runNo, cycle, top, tfp, sigVars, gotFinish,
                           startFlag, finishReads, nEvals, histVars, misuse,
                           ret, prevVars, dutVars>>

\* top->eval();
EvalHigh == pc = "eval_high" /\ Eval("dump_high")

\* variant: the clock is lowered right after the rising-edge sample
DumpHighThenClkLow ==
    /\ pc = "dump_high"
    /\ dumps' = IF TfpSet
                THEN Append(dumps, <<RiseStamp(cycle), cycle, clk, count>>)
                ELSE dumps
    /\ clk' = 0
    /\ stim' = Append(stim, WriteEv("clk", 0))
    /\ misuse' = (misuse \/ TopUse \/ (TfpSet /\ TfpUse))
    /\ pc' = "report"
    /\ UNCHANGED <<runNo, cycle, top, tfp, rst_n, enable, count, lastClk,
                   gotFinish, startFlag, finishReads, nEvals, out, ret,
                   prevVars, dutVars>>

\* if (tfp) tfp->dump(cycle*2+1);
DumpHigh == pc = "dump_high" /\ Dump(RiseStamp(cycle), "report")

\* printf("Cycle %d: count = %d\n", cycle, top->count);
Report ==
    /\ pc = "report"
    /\ out' = Append(out, <<cycle, count>>)
    /\ misuse' = (misuse \/ TopUse)
    /\ pc' = "incr"
    /\ UNCHANGED <<runNo, cycle, top, tfp, sigVars, gotFinish, startFlag,
                   finishReads, nEvals, dumps, stim, ret, prevVars, dutVars>>

\* cycle++
LoopIncr ==
    /\ pc = "incr"
    /\ cycle' = cycle + 1
    /\ pc' = "loop"
    /\ UNCHANGED <<runNo, top, tfp, sigVars, gotFinish, startFlag,
                   finishReads, nEvals, histVars, misuse, ret, prevVars,
                   dutVars>>

\* variant: the recorder is never closed nor released
TeardownSkipsRecorder ==
    /\ pc = "teardown"
    /\ pc' = "del_top"
    /\ UNCHANGED <<runNo, cycle, top, tfp, sigVars, gotFinish, startFlag,
                   finishReads, nEvals, histVars, misuse, ret, prevVars,
                   dutVars>>

(***************************************************************************)
(* if (tfp) { tfp->close(); delete tfp; }  delete top;  return 0;          *)
(***************************************************************************)
Teardown ==
    /\ pc = "teardown"
    /\ pc' = IF TfpSet THEN "close" ELSE "del_top"
    /\ UNCHANGED <<runNo, cycle, top, tfp, sigVars, gotFinish, startFlag,
                   finishReads, nEvals, histVars, misuse, ret, prevVars,
                   dutVars>>

\* tfp->close();
CloseTrace ==
    /\ pc = "close"
    /\ tfp' = "closed"
    /\ misuse' = (misuse \/ TfpUse)
    /\ pc' = "del_tfp"
    /\ UNCHANGED <<runNo, cycle, top, sigVars, gotFinish, startFlag,
                   finishReads, nEvals, histVars, ret, prevVars, dutVars>>

\* delete tfp;
DeleteTfp ==
    /\ pc = "del_tfp"
    /\ tfp' = "freed"
    /\ misuse' = (misuse \/ tfp \notin {"open", "closed"})
    /\ pc' = "del_top"
    /\ UNCHANGED <<runNo, cycle, top, sigVars, gotFinish, startFlag,
                   finishReads, nEvals, histVars, ret, prevVars, dutVars>>

\* delete top;
DeleteTop ==
    /\ pc = "del_top"
    /\ top' = "freed"
    /\ misuse' = (misuse \/ TopUse)
    /\ pc' = "return"
    /\ UNCHANGED <<runNo, cycle, tfp, sigVars, gotFinish, startFlag,
                   finishReads, nEvals, histVars, ret, prevVars, dutVars>>

\* return 0;
Return ==
    /\ pc = "return"
    /\ ret' = 0
    /\ pc' = "done"
    /\ UNCHANGED <<runNo, cycle, top, tfp, sigVars, gotFinish, startFlag,
                   finishReads, nEvals, histVars, misuse, prevVars, dutVars>>

(***************************************************************************)
(* The program is started again on the same counter: main runs a second    *)
(* time from the state the process starts in, with the backend's finished  *)
(* flag as the new process finds it.                                       *)
(***************************************************************************)
Rerun ==
    /\ pc = "done"
    /\ runNo = 1
    /\ runNo' = runNo + 1
    /\ prevOut' = out /\ prevDumps' = dumps /\ prevStim' = stim
    /\ prevStart' = startFlag
    /\ pc' = "new_top"
    /\ cycle' = 0
    /\ top' = "null" /\ tfp' = "null"
    /\ rst_n' = 0 /\ enable' = 0 /\ clk' = 0 /\ count' = 0 /\ lastClk' = 0
    /\ gotFinish' \in BOOLEAN
    /\ startFlag' = gotFinish'
    /\ finishReads' = 0
    /\ nEvals' = 0
    /\ out' = <<>> /\ dumps' = <<>> /\ stim' = <<>>
    /\ misuse' = FALSE
    /\ ret' = -1
    /\ UNCHANGED dutVars

\* one statement of main
Step ==
    \/ NewTop \/ CheckFinish \/ OpenTrace
    \/ InitRst \/ InitEnable \/ InitClk
    \/ LoopTest \/ HoldReset \/ ReleaseReset \/ SetEnable
    \/ ClkLow \/ EvalLow \/ DumpLow
    \/ ClkHigh \/ EvalHigh \/ DumpHigh
    \/ Report \/ LoopIncr
    \/ Teardown \/ CloseTrace \/ DeleteTfp \/ DeleteTop \/ Return

Next == Step \/ Rerun

Spec == Init /\ [][Next]_vars

\* One execution of main.  main is sequential code: a statement that can
\* run does run.
FairSpec == Init /\ [][Step]_vars /\ WF_vars(Step)

(***************************************************************************)
(* Properties.                                                             *)
(***************************************************************************)
AtEval == pc \in {"eval_low", "eval_high"}

Finished == pc = "done"

ReportsInOrder == \A i \in 1..Len(out) : out[i][1] = i - 1

\* C1: every run of main terminates, having executed exactly 100 loop
\* iterations and printed exactly 100 lines, one per cycle, whose cycle
\* numbers are 0, 1, ..., 99 in this order with none repeated or skipped.
C1_Terminates ==
    /\ [](ReportsInOrder /\ Len(out) <= NumCycles)
    /\ (pc = "new_top") ~> (/\ Finished
                            /\ ret = 0
                            /\ cycle = NumCycles
                            /\ Len(out) = NumCycles
                            /\ ReportsInOrder)

C1_Witness == Finished /\ ret = 0 /\ cycle = NumCycles /\ Len(out) = NumCycles

\* C2: when the recorder is active, the timestamps passed to dump are
\* exactly 0, 1, ..., 199: the falling-edge sample of cycle c has timestamp
\* 2*c, the rising-edge sample 2*c+1, none reused or skipped.
C2_Timestamps ==
    /\ \A i \in 1..Len(dumps) :
          /\ dumps[i][1] = i - 1
          /\ dumps[i][1] = 2 * dumps[i][2] + dumps[i][3]
    /\ (Finished /\ TfpSet) => Len(dumps) = 2 * NumCycles

C2_Witness == Finished /\ TfpSet /\ Len(dumps) = 2 * NumCycles

\* C3 as stated: against a counter with reset value 0 and width at least 7,
\* the line of cycle 99 carries count = 94, that is 99 - 5.
C3_Original ==
    (Finished /\ RESET_VAL = 0 /\ WIDTH >= 7)
        => out[NumCycles] = <<NumCycles - 1, NumCycles - 1 - ResetCycles>>

\* C3 amended: against a counter with reset value 0 and width at least 7,
\* the line of cycle 99 carries count = 95, that is 99 - 5 + 1: cycle 5
\* already delivers a rising edge to the released, enabled counter.
C3_Count95 ==
    (Finished /\ RESET_VAL = 0 /\ WIDTH >= 7)
        => out[NumCycles] = <<NumCycles - 1, NumCycles - ResetCycles>>

C3_Witness == Finished /\ RESET_VAL = 0 /\ WIDTH >= 7 /\ Len(out) = NumCycles

\* C4: for every cycle c < 5 the count reported for cycle c equals the
\* counter's reset value, the counter being held in reset at both
\* evaluations of each of those cycles.
C4_ResetWindow ==
    /\ \A i \in 1..Len(out) :
          out[i][1] < ResetCycles => out[i][2] = RESET_VAL
    /\ (AtEval /\ cycle < ResetCycles) => rst_n = 0

C4_Witness ==
    /\ Len(out) = ResetCycles
    /\ INIT_COUNT % Pow2(WIDTH) # RESET_VAL
    /\ out[ResetCycles] = <<ResetCycles - 1, RESET_VAL>>

\* C5: for every cycle c with 5 <= c <= 99 the count reported for cycle c
\* is the count reported for cycle c-1 plus exactly 1, modulo 2^WIDTH.
C5_Increments ==
    LET m == Pow2(WIDTH)
    IN  \A i \in 2..Len(out) :
            out[i][1] >= ResetCycles
                => out[i][2] = (out[i - 1][2] + 1) % m

C5_Witness ==
    /\ Finished
    /\ Len(out) = NumCycles
    /\ \E i \in 2..NumCycles :
          /\ out[i][1] >= ResetCycles
          /\ out[i][2] = 0
          /\ out[i - 1][2] = Pow2(WIDTH) - 1

\* C6: at every evaluation in cycles 0..4 rst_n = 0 and enable = 0, at
\* every evaluation in cycles 5..99 rst_n = 1 and enable = 1, and once main
\* has set rst_n to 1 no later step of the run sets it back to 0.
C6_TwoPhase ==
    [][ /\ (AtEval /\ cycle < ResetCycles) => (rst_n = 0 /\ enable = 0)
        /\ (AtEval /\ cycle >= ResetCycles) => (rst_n = 1 /\ enable = 1)
        /\ (/\ pc \notin {"new_top", "check", "open", "init_rst"}
            /\ rst_n = 1
            /\ runNo' = runNo) => rst_n' = 1 ]_vars

C6_Witness == pc = "eval_high" /\ cycle = NumCycles - 1 /\ rst_n = 1 /\ enable = 1

\* C7: teardown is ordered: an opened recorder is closed, then released,
\* and only then is the counter released; all of it happens after the
\* 100th report; the counter is released exactly once in every run; nothing
\* is used after it has been released.
C7_Teardown ==
    [][ /\ misuse' = FALSE
        /\ (tfp' = "closed" /\ tfp # "closed")
              => (tfp = "open" /\ top = "live" /\ Len(out) = NumCycles)
        /\ (tfp' = "freed" /\ tfp # "freed")
              => (tfp = "closed" /\ top = "live" /\ Len(out) = NumCycles)
        /\ (top' = "freed" /\ top # "freed")
              => (top = "live" /\ tfp \in {"null", "freed"}
                  /\ Len(out) = NumCycles)
        /\ (top = "freed" /\ runNo' = runNo)
              => (top' = "freed" /\ UNCHANGED <<sigVars, histVars, nEvals, tfp>>)
        /\ pc' = "done"
              => (top' = "freed" /\ tfp' = (IF startFlag THEN "null" ELSE "freed")) ]_vars

C7_Witness == Finished /\ top = "freed" /\ tfp = "freed" /\ ~misuse

\* C8: whether the startup check enables tracing or skips it, the run
\* performs the same sequence of signal writes and evaluations and prints
\* the same 100 lines; the runs differ only in the recorder's operations.
C8_TracingTransparent ==
    (Finished /\ runNo = 2 /\ startFlag # prevStart)
        => /\ out = prevOut
           /\ stim = prevStim
           /\ Len(out) = NumCycles
           /\ (IF startFlag THEN dumps ELSE prevDumps) = <<>>
           /\ Len(IF startFlag THEN prevDumps ELSE dumps) = 2 * NumCycles

C8_Witness ==
    Finished /\ runNo = 2 /\ startFlag # prevStart /\ Len(prevOut) = NumCycles

\* C9: two runs started from identical initial conditions (same counter,
\* same startup finished flag) print identical lines and, when tracing,
\* record identical samples.
C9_Deterministic ==
    (Finished /\ runNo = 2 /\ startFlag = prevStart)
        => (out = prevOut /\ dumps = prevDumps /\ stim = prevStim)

C9_Witness ==
    /\ Finished /\ runNo = 2 /\ startFlag = FALSE /\ prevStart = FALSE
    /\ Len(prevDumps) = 2 * NumCycles
    /\ gotFinish

\* C10: the finished flag is read exactly once, before the loop; when the
\* backend raises it during an evaluation after that read, main still
\* executes all 100 cycles, keeps sampling, and returns 0.
C10_FinishIgnored ==
    /\ finishReads <= 1
    /\ pc \notin {"new_top", "check"} => finishReads = 1
    /\ (pc = "report" /\ gotFinish /\ ~startFlag)
          => /\ nEvals = 2 * (cycle + 1)
             /\ Len(dumps) = 2 * (cycle + 1)
    /\ (Finished /\ gotFinish /\ ~startFlag)
          => /\ cycle = NumCycles
             /\ Len(out) = NumCycles
             /\ nEvals = 2 * NumCycles
             /\ Len(dumps) = 2 * NumCycles
             /\ ret = 0

C10_Witness ==
    Finished /\ gotFinish /\ ~startFlag /\ Len(out) = NumCycles /\ ret = 0

\* C11: within every cycle the steps occur in this order: reset/enable
\* update, clock := 0, evaluate, sample at 2*cycle if the recorder is
\* active, clock := 1, evaluate, sample at 2*cycle+1 if the recorder is
\* active, report; each cycle has exactly two evaluations and the reported
\* count is the counter's output after that cycle's rising-edge evaluation.
C11_StepOrder ==
    [][ /\ (pc = "loop" /\ pc' # "teardown")
              => (pc' \in {"hold_reset", "release_reset"}
                  /\ nEvals = 2 * cycle /\ Len(out) = cycle)
        /\ pc = "hold_reset" => (pc' = "clk_low" /\ rst_n' = 0)
        /\ pc = "release_reset" => (pc' = "set_enable" /\ rst_n' = 1)
        /\ pc = "set_enable" => (pc' = "clk_low" /\ enable' = 1)
        /\ pc = "clk_low"
              => (pc' = "eval_low" /\ clk' = 0 /\ nEvals' = 2 * cycle)
        /\ pc = "eval_low"
              => (pc' = "dump_low" /\ clk = 0 /\ nEvals' = 2 * cycle + 1)
        /\ pc = "dump_low"
              => (/\ pc' = "clk_high"
                  /\ nEvals' = nEvals
                  /\ dumps' = IF TfpSet
                              THEN Append(dumps, <<2 * cycle, cycle, 0, count>>)
                              ELSE dumps)
        /\ pc = "clk_high"
              => (pc' = "eval_high" /\ clk' = 1 /\ nEvals' = 2 * cycle + 1)
        /\ pc = "eval_high"
              => (pc' = "dump_high" /\ clk = 1 /\ nEvals' = 2 * cycle + 2)
        /\ pc = "dump_high"
              => (/\ pc' = "report"
                  /\ nEvals' = nEvals
                  /\ count' = count
                  /\ dumps' = IF TfpSet
                              THEN Append(dumps, <<2 * cycle + 1, cycle, 1, count>>)
                              ELSE dumps)
        /\ pc = "report"
              => (/\ pc' = "incr"
                  /\ nEvals = 2 * cycle + 2
                  /\ lastClk = 1
                  /\ out' = Append(out, <<cycle, count>>))
        /\ pc = "incr" => (pc' = "loop" /\ cycle' = cycle + 1) ]_vars

C11_Witness ==
    /\ pc = "incr" /\ cycle = NumCycles - 1 /\ TfpSet
    /\ nEvals = 2 * NumCycles
    /\ Len(dumps) = 2 * NumCycles
    /\ out[NumCycles] = <<cycle, count>>

\* C12: the recorder exists if and only if the finished flag was false at
\* the single startup check: then it is opened exactly once, before the
\* first evaluation, and every half-cycle appends a sample; otherwise it is
\* never created and no sample, close or release of it ever occurs.
C12_RecorderIff ==
    [][ /\ pc' \notin {"new_top", "check", "open"}
              => ((tfp' # "null") <=> ~startFlag')
        /\ (tfp' = "open" /\ tfp # "open")
              => (/\ pc = "open" /\ tfp = "null" /\ ~startFlag
                  /\ finishReads = 1 /\ nEvals = 0)
        /\ (pc \in {"dump_low", "dump_high"} /\ ~startFlag)
              => (tfp = "open" /\ Len(dumps') = Len(dumps) + 1)
        /\ startFlag => (tfp = "null" /\ tfp' = "null" /\ dumps' = <<>>) ]_vars

C12_Witness ==
    /\ Finished /\ runNo = 2
    /\ startFlag /\ tfp = "null" /\ dumps = <<>> /\ Len(out) = NumCycles
    /\ ~prevStart /\ Len(prevDumps) = 2 * NumCycles

\* main has not yet written both rst_n and enable
BeforeInputsWritten ==
    pc \in {"new_top", "check", "open", "init_rst", "init_enable"}

\* C13 as stated: in every reachable state of the run, enable = 1 implies
\* rst_n = 1.
C13_Original == enable = 1 => rst_n = 1

\* C13 amended: in every state of the run after main's initial writes
\* top->rst_n = 0 and top->enable = 0, enable = 1 implies rst_n = 1,
\* including the state between the two assignments at cycle 5.
C13_EnableImpliesReleased ==
    ~BeforeInputsWritten => (enable = 1 => rst_n = 1)

C13_Witness ==
    pc = "set_enable" /\ cycle = ResetCycles /\ rst_n = 1 /\ enable = 0

\* an entry of stim that is a call of top->eval()
IsEval(e) == e[1] = "eval"

\* the clk value an evaluation saw
EvalClk(e) == e[2] % 2

\* the evaluations of the run, in order
EvalSeq == SelectSeq(stim, IsEval)

\* the evaluations at which the counter saw clk go from 0 to 1
RisingEdges ==
    {i \in 2..Len(EvalSeq) :
        EvalClk(EvalSeq[i]) = 1 /\ EvalClk(EvalSeq[i - 1]) = 0}

\* C14: the clock seen by successive evaluations alternates 0, 1, 0, 1, ...
\* starting with 0; over the run the counter is evaluated exactly 200 times
\* and sees exactly 100 rising edges, exactly 95 of them (cycles 5..99)
\* with reset released and enable set; the clock is 1 when the run ends.
C14_ClockAlternates ==
    /\ AtEval => clk = nEvals % 2
    /\ nEvals > 0 => lastClk = (nEvals - 1) % 2
    /\ Finished
          => /\ nEvals = 2 * NumCycles
             /\ Len(EvalSeq) = 2 * NumCycles
             /\ \A i \in 1..Len(EvalSeq) : EvalClk(EvalSeq[i]) = (i - 1) % 2
             /\ Cardinality(RisingEdges) = NumCycles
             /\ Cardinality({i \in RisingEdges : EvalSeq[i] = EvalEv(1, 1, 1)})
                   = NumCycles - ResetCycles
             /\ clk = 1

C14_Witness ==
    /\ Finished /\ clk = 1 /\ nEvals = 2 * NumCycles
    /\ Cardinality(RisingEdges) = NumCycles

\* main is about to sample or to report
AfterEval == pc \in {"dump_low", "dump_high", "report"}

\* C15: no input signal (rst_n, enable, clk) is written between an
\* evaluation and the sample that follows it, nor between the rising-edge
\* evaluation and the report, so every sample and every reported count is
\* the counter's state settled under the input vector of the immediately
\* preceding evaluation; inside the loop rst_n and enable are written only
\* at the start of a cycle.
C15_Frame ==
    [][ /\ AfterEval
              => (/\ stim[Len(stim)] = EvalEv(rst_n, enable, clk)
                  /\ lastClk = clk
                  /\ stim' = stim
                  /\ UNCHANGED <<rst_n, enable, clk, count>>)
        /\ (/\ ~BeforeInputsWritten
            /\ runNo' = runNo
            /\ \/ <<rst_n, enable>>' # <<rst_n, enable>>
               \/ /\ Len(stim') > Len(stim)
                  /\ stim'[Len(stim')][1] \in {"rst_n", "enable"})
              => pc \in {"hold_reset", "release_reset", "set_enable"} ]_vars

C15_Witness ==
    /\ pc = "report" /\ cycle = ResetCycles /\ TfpSet
    /\ stim[Len(stim)] = EvalEv(1, 1, 1)
    /\ dumps[Len(dumps)] = <<2 * cycle + 1, cycle, 1, count>>

=============================================================================
